---- MODULE Spec2Model ----
(***************************************************************************)
(* A model of the NIC / CDR marginal-ice-zone comparison code:             *)
(*   src/modules/io.py       conversion of the source files of a date      *)
(*                           range into .npy grids kept next to them       *)
(*   src/modules/compare.py  the median grid, the ice area and the         *)
(*                           footprint difference of two grids             *)
(*   src/modules/main.py     the command line: the days analysed and the   *)
(*                           order of the calls into io.py                 *)
(*                                                                         *)
(* Concentrations are fractions in the code (0.18, 0.8, 1.0); the model    *)
(* keeps them as integers in hundredths (18, 80, 100), so the rasterizer's *)
(* fill value -1 is -100 here.  A grid is the flattened array: a function  *)
(* from the cell index 1..NumCells to the cell's value.                    *)
(***************************************************************************)
EXTENDS Integers, Sequences, FiniteSets, TLC

\* ---------------------------------------------------------------- bounds
NumDates == 2
NumCells == 2
NumDays == 3

Dates == 1..NumDates
Cells == 1..NumCells

\* ------------------------------------------------------------- constants
\* io.py:282-283, the fixed label -> concentration mapping, in hundredths
CT18 == 18
CT81 == 80
\* io.py:308, fill=-1, in hundredths
FILL == -100

VARIABLES
    hemisphere,  \* the hemisphere argument of every call of the run
    product,     \* "cdr" or "nic": the input folder the run works on
    src,         \* the source files of the folder: file name -> content
    cache,       \* the .npy files of the folder: file name -> artifact
    call,        \* the cdr_to_np / nic_to_np call in progress, or the last one
    job,         \* per date: the position of the date's _xxx_to_np_grid job
    log,         \* what the jobs have printed (verbose only)
    runs,        \* SpecTwice: the finished direct runs of one date's job, in order
    args,        \* compare.py: the arguments of the function being evaluated
    loop,        \* compare.py: the locals of _median_grid's loop
    ret,         \* compare.py: what the function returned or raised
    cli          \* main.py: the position of main and its locals

cmpVars == <<args, loop, ret>>
vars == <<hemisphere, product, src, cache, call, job, log, runs, args, loop, ret, cli>>

\* ------------------------------------------------------- io.py, file names
check_hemisphere(h) == h \in {"north", "south"}

datetime_to_cdr_fname(dt, h) == <<"seaice_conc_daily", h, dt, "nc">>
datetime_to_nic_fname(dt, h) == <<"nic_miz", h, dt, "zip">>
datetime_to_cdr_fname_grid(dt, h) == <<dt, h, "cdr", "npy">>
datetime_to_nic_fname_grid(dt, h) == <<dt, h, "nic", "npy">>

SourceName(p, dt, h) ==
    IF p = "cdr" THEN datetime_to_cdr_fname(dt, h) ELSE datetime_to_nic_fname(dt, h)
GridNameNoDate(p, dt, h) ==
    IF p = "cdr" THEN datetime_to_cdr_fname_grid(0, h)
    ELSE datetime_to_nic_fname_grid(0, h)
GridName(p, dt, h) ==
    IF p = "cdr" THEN datetime_to_cdr_fname_grid(dt, h)
    ELSE datetime_to_nic_fname_grid(dt, h)

\* --------------------------------------------------- contents of the folder
\* A source file is missing, unreadable (a truncated download, a file that
\* is no netCDF / no zip archive), a netCDF with its concentration variable,
\* or a zipped shapefile with its (geometry, ICECODE) rows.  A geometry is
\* the set of cells it covers once projected on the grid.
Missing == [kind |-> "missing"]
Malformed == [kind |-> "malformed"]
NetCDF(raw) == [kind |-> "netcdf", seaice_conc_cdr |-> raw]
Shapefile(rows) == [kind |-> "shapefile", rows |-> rows]

Cell(m, v) == [masked |-> m, v |-> v]
RawA == [c \in Cells |-> IF c = 1 THEN Cell(TRUE, 50)
                         ELSE IF c = 2 THEN Cell(FALSE, -5) ELSE Cell(FALSE, 80)]
RawB == [c \in Cells |-> IF c = 1 THEN Cell(FALSE, 18) ELSE Cell(FALSE, 100)]
Row(cs, code) == [cells |-> cs, ICECODE |-> code]
RowsA == <<Row(Cells \ {NumCells}, "CT18"), Row({1}, "CT81")>>
RowsUnknown == <<Row({1}, "CT18"), Row({1}, "CT13")>>

Contents(p) ==
    IF p = "cdr" THEN {Missing, Malformed, NetCDF(RawA), NetCDF(RawB)}
    ELSE {Missing, Malformed, Shapefile(RowsA), Shapefile(RowsUnknown)}

\* A .npy file is absent, opened for writing and not yet (or never) written
\* to its end, or the complete array.
Absent == [st |-> "absent"]
Partial == [st |-> "partial"]
Complete(g) == [st |-> "complete", grid |-> g]

Raise(e) == [exc |-> e]
Value(g) == [exc |-> "none", grid |-> g]
Pending == [exc |-> "pending"]

None == [none |-> TRUE]
Some(v) == [none |-> FALSE, v |-> v]

\* main has not been started
NoCli == [pc |-> "none"]

NoArgs == [fn |-> "none"]
NoLoop == [date |-> 0, sum_grid |-> None, counter |-> 0, grid |-> None, mask |-> None]
CmpIdle == args = NoArgs /\ loop = NoLoop /\ ret = Pending

\* ------------------------------------------------- io.py, the conversions
\* _cdr_to_np_grid, lines 245-250: the masked array is filled with 0 and
\* every negative value (a flag) is set to 0.
filled(raw, fv) == [c \in DOMAIN raw |-> IF raw[c].masked THEN fv ELSE raw[c].v]

CdrGrid(file) ==
    IF file.kind = "missing" THEN Raise("FileNotFoundError")
    ELSE IF file.kind # "netcdf" THEN Raise("OSError: unknown file format")
    ELSE LET grid == filled(file.seaice_conc_cdr, 0)
         IN  Value([c \in DOMAIN grid |-> IF grid[c] < 0 THEN 0 ELSE grid[c]])

\* _nic_to_np_grid, lines 281-284
icecode_mapping == ("CT18" :> CT18) @@ ("CT81" :> CT81)

\* rasterio.features.rasterize as _nic_to_np_grid calls it (lines 306-309):
\* the output starts at fill and the shapes are burnt in the order given.
RECURSIVE BurnFirstWins(_, _, _)
BurnFirstWins(shapes, i, out) ==
    IF i > Len(shapes) THEN out
    ELSE BurnFirstWins(shapes, i + 1,
              [c \in DOMAIN out |->
                  IF c \in shapes[i][1] /\ out[c] = FILL THEN shapes[i][2] ELSE out[c]])

RECURSIVE Burn(_, _, _)
Burn(shapes, i, out) ==
    IF i > Len(shapes) THEN out
    ELSE Burn(shapes, i + 1,
              [c \in DOMAIN out |-> IF c \in shapes[i][1] THEN shapes[i][2] ELSE out[c]])

rasterize(shapes, fill, out_shape) ==
    IF Len(shapes) = 0 THEN Raise("ValueError")
    ELSE Value(Burn(shapes, 1, [c \in out_shape |-> fill]))

NicGrid(file, shape) ==
    IF file.kind # "shapefile" THEN Raise("DriverError")
    ELSE LET gdf == file.rows
         IN  IF \E i \in 1..Len(gdf) : gdf[i].ICECODE \notin DOMAIN icecode_mapping
             THEN Raise("KeyError")
             ELSE rasterize([i \in 1..Len(gdf) |->
                                <<gdf[i].cells, icecode_mapping[gdf[i].ICECODE]>>],
                            FILL, shape)

\* Whether the conversion got as far as reading the source's content.
ReadsSource(p, file) ==
    IF p = "cdr" THEN file.kind = "netcdf" ELSE file.kind = "shapefile"

exists(fname) == cache[fname].st # "absent"

\* ---------------------------------------------------- the per-date jobs
NoJob == [pc |-> "none", outcome |-> "none", opened |-> FALSE, grid |-> <<>>]
Queued == [NoJob EXCEPT !.pc = "queued"]
Done(j, o) == [j EXCEPT !.pc = "done", !.outcome = o]

\* What the conversion and the save raise; all are subclasses of Exception.
Failures == {"FileNotFoundError", "OSError: unknown file format", "DriverError",
             "KeyError", "ValueError", "OSError: write failed"}

\* lines 253 / 312, "except Exception as e"
CaughtOnlyMissing(e) == e = "FileNotFoundError"
Caught(e) == e \in Failures

\* The job's end when e is raised inside its try block; an exception the
\* except clause does not catch leaves the job and reaches Parallel.
Failed(j, e) == IF Caught(e) THEN Done(j, e) ELSE [j EXCEPT !.pc = "raised", !.outcome = e]

Printed(msg) == IF call.verbose THEN log \cup {msg} ELSE log

\* lines 238-243 / 269-275: the hemisphere check, the "Running" message and
\* the test that decides whether the date is converted at all.
ShouldConvertIgnoringClobber(clobber, fname) == ~exists(fname)
ShouldConvertAlways(clobber, fname) == TRUE
ShouldConvert(clobber, fname) == clobber \/ ~exists(fname)

JobBegin(d) ==
    /\ call.status = "running"
    /\ job[d].pc = "queued"
    /\ check_hemisphere(hemisphere)
    /\ IF ShouldConvert(call.clobber, GridName(product, d, hemisphere))
       THEN job' = [job EXCEPT ![d].pc = "convert"]
       ELSE job' = [job EXCEPT ![d] = Done(@, "skipped")]
    /\ log' = Printed(<<"Running", d>>)
    /\ UNCHANGED <<cli, cmpVars, hemisphere, product, src, cache, call, runs>>

\* lines 244-250 / 276-309: read the source and compute the grid; whatever
\* is raised is caught at lines 253-255 / 312-314.
JobConvert(d) ==
    /\ call.status = "running"
    /\ job[d].pc = "convert"
    /\ LET file == src[SourceName(product, d, hemisphere)]
           r == IF product = "cdr" THEN CdrGrid(file) ELSE NicGrid(file, Cells)
           j == [job[d] EXCEPT !.opened = ReadsSource(product, file)]
       IN  IF r.exc = "none"
           THEN /\ job' = [job EXCEPT ![d] = [j EXCEPT !.pc = "save", !.grid = r.grid]]
                /\ log' = log
           ELSE /\ job' = [job EXCEPT ![d] = Failed(j, r.exc)]
                /\ log' = IF Caught(r.exc) THEN Printed(<<"COULDN'T RUN", d, r.exc>>)
                           ELSE log
    /\ UNCHANGED <<cli, cmpVars, hemisphere, product, src, cache, call, runs>>

\* line 252 / 311, np.save(grid_fname, grid): the file is opened for writing
\* under its final name, which creates it or truncates it ...
JobSaveOpen(d) ==
    /\ call.status = "running"
    /\ job[d].pc = "save"
    /\ cache' = [cache EXCEPT ![GridName(product, d, hemisphere)] = Partial]
    /\ job' = [job EXCEPT ![d].pc = "writing"]
    /\ UNCHANGED <<cli, cmpVars, hemisphere, product, src, call, log, runs>>

\* ... and the array is written into it.
JobSaveWrite(d) ==
    /\ call.status = "running"
    /\ job[d].pc = "writing"
    /\ cache' = [cache EXCEPT ![GridName(product, d, hemisphere)] = Complete(job[d].grid)]
    /\ job' = [job EXCEPT ![d] = Done(@, "succeeded")]
    /\ UNCHANGED <<cli, cmpVars, hemisphere, product, src, call, log, runs>>

\* The write fails before its end (the disk is full, an I/O error): the
\* exception is caught at lines 253-255 / 312-314, the file stays as it is.
JobSaveFail(d) ==
    /\ call.status = "running"
    /\ job[d].pc = "writing"
    /\ job' = [job EXCEPT ![d] = Failed(@, "OSError: write failed")]
    /\ log' = IF Caught("OSError: write failed")
              THEN Printed(<<"COULDN'T RUN", d, "OSError: write failed">>)
              ELSE log
    /\ UNCHANGED <<cli, cmpVars, hemisphere, product, src, cache, call, runs>>

JobStep(d) ==
    \/ JobBegin(d)
    \/ JobConvert(d)
    \/ JobSaveOpen(d)
    \/ JobSaveWrite(d)
    \/ JobSaveFail(d)


\* ------------------------------------------------------ io.py, the calls
\* The interval of the run, main's args.start and args.end, as day numbers.
start == 1
end == NumDates

\* pd.date_range(start=start, end=end): both ends included, empty if start > end
date_range(from, to) == from..to

NoCall == [fn |-> "none", clobber |-> FALSE, verbose |-> FALSE,
           status |-> "idle", returns |-> "nothing"]

Submit(fn, clobber, verbose) ==
    /\ call.status # "running"
    /\ check_hemisphere(hemisphere)
    /\ call' = [fn |-> fn, clobber |-> clobber, verbose |-> verbose,
                status |-> "running", returns |-> "nothing"]
    /\ job' = [d \in Dates |-> IF d \in date_range(start, end) THEN Queued ELSE NoJob]
    /\ log' = {}
    /\ UNCHANGED <<cli, cmpVars, hemisphere, product, src, cache, runs>>

\* lines 28-44
cdr_to_np(clobber, verbose) ==
    /\ product = "cdr"
    /\ Submit("cdr_to_np", clobber, verbose)

\* lines 208-225
nic_to_np(clobber, verbose) ==
    /\ product = "nic"
    /\ Submit("nic_to_np", clobber, verbose)

\* Parallel(...)(...) returns once every job has returned; its list of the
\* jobs' results (None each) is dropped and the call returns None.  An
\* exception that left a job is raised again in the caller.
ParallelReturn ==
    /\ call.status = "running"
    /\ call.fn \in {"cdr_to_np", "nic_to_np"}
    /\ \A d \in Dates : job[d].pc \in {"none", "done", "raised"}
    /\ call' = IF \E d \in Dates : job[d].pc = "raised"
               THEN [call EXCEPT !.status = "raised"]
               ELSE [call EXCEPT !.status = "returned", !.returns = "None"]
    /\ UNCHANGED <<cli, cmpVars, hemisphere, product, src, cache, job, log, runs>>

\* lines 103-138: per date of the range, a file that is there is kept when
\* no_clobber; otherwise the file is fetched.  got[d] is what urlretrieve
\* leaves for date d: Missing when it raised before creating the file.
\* The frames and the output of a finished conversion call are dropped here.
Downloaded(dates, no_clobber, got) ==
    [n \in DOMAIN src |->
        IF \E d \in dates :
               /\ n = SourceName(product, d, hemisphere)
               /\ ~(no_clobber /\ src[n].kind # "missing")
               /\ got[d].kind # "missing"
        THEN got[CHOOSE d \in dates : n = SourceName(product, d, hemisphere)]
        ELSE src[n]]

download_range(no_clobber, got) ==
    /\ call.status # "running"
    /\ check_hemisphere(hemisphere)
    /\ src' = Downloaded(date_range(start, end), no_clobber, got)
    /\ call' = NoCall
    /\ job' = [d \in Dates |-> NoJob]
    /\ log' = {}
    /\ UNCHANGED <<cli, cmpVars, hemisphere, product, cache, runs>>

\* ------------------------------------------------------ the specification
Products == {"cdr", "nic"}

TypeOK ==
    /\ check_hemisphere(hemisphere)
    /\ product \in Products
    /\ \A d \in Dates : src[SourceName(product, d, hemisphere)] \in Contents(product)
    /\ \A d \in Dates : job[d].pc \in {"none", "queued", "convert", "save", "writing", "done", "raised"}

\* A fresh data directory; hemisphere='south' is the default of io.py.
Init ==
    /\ hemisphere = "south"
    /\ product \in Products
    /\ src = [n \in {SourceName(product, d, hemisphere) : d \in Dates} |-> Missing]
    /\ cache = [n \in {GridName(product, d, hemisphere) : d \in Dates} |-> Absent]
    /\ call = NoCall
    /\ job = [d \in Dates |-> NoJob]
    /\ log = {}
    /\ runs = <<>>
    /\ cli = NoCli
    /\ CmpIdle

Next ==
    \/ \E no_clobber \in BOOLEAN, got \in [Dates -> Contents(product)] :
           download_range(no_clobber, got)
    \/ \E clobber, verbose \in BOOLEAN : cdr_to_np(clobber, verbose)
    \/ \E clobber, verbose \in BOOLEAN : nic_to_np(clobber, verbose)
    \/ \E d \in Dates : JobStep(d)
    \/ ParallelReturn

Spec == Init /\ [][Next]_vars

\* ================================================================ compare.py
\* A grid handed to compare.py is a flattened array 1..n; its shape is n.
Shape(grid) == Cardinality(DOMAIN grid)

\* numpy's broadcasting of two arrays in an elementwise operation: the
\* shapes must be equal or one of them 1, the result has the larger shape and
\* an array of shape 1 is repeated along it.
Broadcastable(a, b) == a = b \/ a = 1 \/ b = 1
BroadcastShape(a, b) == 1..(IF a >= b THEN a ELSE b)
At(grid, c) == IF Shape(grid) = 1 THEN grid[1] ELSE grid[c]

\* np.where((grid >= lo) & (grid <= hi), True, False)
InRange(grid, lo, hi) == [c \in DOMAIN grid |-> grid[c] >= lo /\ grid[c] <= hi]

\* np.where(grid >= thresh, True, False): compare.py:61, main.py:205-206, 239, 261
ThresholdMask(grid, thresh) == [c \in DOMAIN grid |-> grid[c] >= thresh]

\* overlap_grid[mask] = v
Assign(grid, mask, v) == [c \in DOMAIN grid |-> IF mask[c] THEN v ELSE grid[c]]

\* The four masks of lines 136-139, in the order they are assigned.
FootprintMasksNoBothFalse(nic, cdr) ==
    LET S == BroadcastShape(Shape(nic), Shape(cdr))
    IN  << [c \in S |-> At(nic, c) /\ At(cdr, c)],
           [c \in S |-> At(nic, c) /\ ~At(cdr, c)],
           [c \in S |-> ~At(nic, c) /\ At(cdr, c)] >>

FootprintMasks(nic, cdr) ==
    LET S == BroadcastShape(Shape(nic), Shape(cdr))
    IN  << [c \in S |-> At(nic, c) /\ At(cdr, c)],
           [c \in S |-> At(nic, c) /\ ~At(cdr, c)],
           [c \in S |-> ~At(nic, c) /\ At(cdr, c)],
           [c \in S |-> ~At(nic, c) /\ ~At(cdr, c)] >>

RECURSIVE AssignAll(_, _, _)
AssignAll(grid, masks, k) ==
    IF k > Len(masks) THEN grid
    ELSE AssignAll(Assign(grid, masks[k], k), masks, k + 1)

\* lines 111-140.  writes[c] counts the assignments that hit cell c.  The
\* masks nic_grid & cdr_grid are broadcast (ValueError when they cannot be);
\* overlap_grid has the CDR grid's shape and a boolean index of another
\* shape raises IndexError.
calculate_ice_footprint_diff(nic_grid, min_nic, max_nic, cdr_grid, min_cdr, max_cdr) ==
    LET overlap_grid == [c \in DOMAIN cdr_grid |-> 0]
        cdr == InRange(cdr_grid, min_cdr, max_cdr)
        nic == InRange(nic_grid, min_nic, max_nic)
        masks == FootprintMasks(nic, cdr)
    IN  IF ~Broadcastable(Shape(nic), Shape(cdr)) THEN Raise("ValueError")
        ELSE IF BroadcastShape(Shape(nic), Shape(cdr)) # DOMAIN overlap_grid
        THEN Raise("IndexError")
        ELSE [exc |-> "none",
              grid |-> AssignAll(overlap_grid, masks, 1),
              writes |-> [c \in DOMAIN cdr_grid |->
                             Cardinality({k \in 1..Len(masks) : masks[k][c]})]]

\* ---------------------------------------------- SpecFootprint: the inputs
\* Cell values of the two products' grids: the rasterizer leaves FILL or a
\* mapped concentration, the CDR conversion leaves no negative value.
NicValues == {FILL, CT18, CT81}
CdrValues == {0, 50, 100}
Thresholds == {FILL, 0, 50, 100}

InitFootprint ==
    /\ hemisphere = "south"
    /\ product = "cdr"
    /\ src = [n \in {SourceName(product, d, hemisphere) : d \in Dates} |-> Missing]
    /\ cache = [n \in {GridName(product, d, hemisphere) : d \in Dates} |-> Absent]
    /\ call = NoCall
    /\ job = [d \in Dates |-> NoJob]
    /\ log = {}
    /\ runs = <<>>
    /\ cli = NoCli
    /\ \E ng \in [Cells -> NicValues], cg \in [Cells -> CdrValues],
          lo_n, hi_n, lo_c, hi_c \in Thresholds :
          args = [fn |-> "calculate_ice_footprint_diff",
                  nic_grid |-> ng, min_nic |-> lo_n, max_nic |-> hi_n,
                  cdr_grid |-> cg, min_cdr |-> lo_c, max_cdr |-> hi_c]
    /\ loop = NoLoop
    /\ ret = Pending

FootprintDiff ==
    /\ args.fn = "calculate_ice_footprint_diff"
    /\ ret = Pending
    /\ ret' = calculate_ice_footprint_diff(args.nic_grid, args.min_nic, args.max_nic,
                                           args.cdr_grid, args.min_cdr, args.max_cdr)
    /\ UNCHANGED <<cli, hemisphere, product, src, cache, call, job, log, runs, args, loop>>

NextFootprint == FootprintDiff

SpecFootprint == InitFootprint /\ [][NextFootprint]_vars

NicMask == InRange(args.nic_grid, args.min_nic, args.max_nic)
CdrMask == InRange(args.cdr_grid, args.min_cdr, args.max_cdr)
Count(grid, v) == Cardinality({c \in DOMAIN grid : grid[c] = v})

\* C6: every cell of the result holds one of 1, 2, 3, 4, was assigned
\* exactly once, and the four categories' counts add up to the cell count.
C6_Partition ==
    ret # Pending =>
       /\ DOMAIN ret.grid = Cells
       /\ \A c \in Cells : ret.grid[c] \in {1, 2, 3, 4} /\ ret.writes[c] = 1
       /\ Count(ret.grid, 1) + Count(ret.grid, 2) + Count(ret.grid, 3)
             + Count(ret.grid, 4) = Cardinality(Cells)

\* C6 witness: a result whose cells fall in different categories, one of
\* them the category assigned last.
C6_Witness ==
    /\ ret # Pending
    /\ \E c1, c2 \in Cells : ret.grid[c1] = 4 /\ ret.grid[c2] \in {1, 2, 3}

\* C7: the labels are the docstring's (lines 115-118): 1 both true, 2 both
\* false, 3 NIC true and CDR false, 4 CDR true and NIC false.
DocLabel(nic, cdr) ==
    IF nic /\ cdr THEN 1
    ELSE IF ~nic /\ ~cdr THEN 2
    ELSE IF nic /\ ~cdr THEN 3
    ELSE 4

C7_DocLabels ==
    ret # Pending => \A c \in Cells : ret.grid[c] = DocLabel(NicMask[c], CdrMask[c])

\* ------------------------------------------------------- _median_grid
\* np.load of a cache file: only a complete file loads.
np_load(fname) ==
    IF cache[fname].st = "absent" THEN Raise("FileNotFoundError")
    ELSE IF cache[fname].st = "partial" THEN Raise("ValueError")
    ELSE Value(cache[fname].grid)

\* io.py lines 161-186, get_nic / get_cdr
get_grid(p, dt, h) ==
    IF ~check_hemisphere(h) THEN Raise("AssertionError") ELSE np_load(GridName(p, dt, h))

\* line 64: sum_grid + mask if sum_grid is not None else 1*mask
AddMask(sum_grid, mask) ==
    IF sum_grid.none THEN Some([c \in DOMAIN mask |-> IF mask[c] THEN 1 ELSE 0])
    ELSE Some([c \in DOMAIN mask |-> sum_grid.v[c] + (IF mask[c] THEN 1 ELSE 0)])

\* lines 58-67, one turn of the loop over the dates: a date whose grid
\* cannot be retrieved is reported and counts nowhere.
NextCounterAlways(counter, retrieved) == counter + 1
NextCounter(counter, retrieved) == IF retrieved THEN counter + 1 ELSE counter

MedianIter ==
    /\ args.fn = "_median_grid"
    /\ ret = Pending
    /\ loop.date \in date_range(args.start, args.end)
    /\ LET r == get_grid(product, loop.date, hemisphere)
           mask == ThresholdMask(r.grid, args.thresh)
       IN  IF r.exc = "none"
           THEN /\ loop' = [date |-> loop.date + 1,
                            sum_grid |-> AddMask(loop.sum_grid, mask),
                            counter |-> NextCounter(loop.counter, TRUE),
                            grid |-> Some(r.grid), mask |-> Some(mask)]
                /\ log' = log
           ELSE /\ loop' = [loop EXCEPT !.date = @ + 1,
                                        !.counter = NextCounter(@, FALSE),
                                        !.grid = None, !.mask = None]
                /\ log' = log \cup {<<"Could not run", loop.date, r.exc>>}
    /\ UNCHANGED <<cli, hemisphere, product, src, cache, call, job, runs, args, ret>>

\* lines 69-71: sum_grid / counter, then >= median_percentage (0.5).  None /
\* counter raises TypeError.  k / n >= 0.5 is decided exactly by the float
\* division for the counts at hand, so it is 2k >= n; numpy's k / 0 is inf
\* for k > 0 and nan for k = 0.
MedianOfZeros(sum_grid, counter) ==
    IF counter = 0 THEN Value([c \in Cells |-> FALSE])
    ELSE Value([c \in DOMAIN sum_grid.v |-> 2 * sum_grid.v[c] >= counter])

Median(sum_grid, counter) ==
    IF sum_grid.none THEN Raise("TypeError")
    ELSE IF counter = 0 THEN Value([c \in DOMAIN sum_grid.v |-> sum_grid.v[c] > 0])
    ELSE Value([c \in DOMAIN sum_grid.v |-> 2 * sum_grid.v[c] >= counter])

MedianReturn ==
    /\ args.fn = "_median_grid"
    /\ ret = Pending
    /\ loop.date \notin date_range(args.start, args.end)
    /\ ret' = Median(loop.sum_grid, loop.counter)
    /\ UNCHANGED <<cli, hemisphere, product, src, cache, call, job, log, runs, args, loop>>

\* ------------------------------------------------- SpecMedian: the inputs
\* The folder holds, for the dates asked for, no file, a file that does not
\* load, or a grid of the product's values; thresh is any of Thresholds; the
\* range is start..end, at most NumDays long, empty when end is before start.
Days == 1..NumDays
GridValues(p) == IF p = "cdr" THEN {0, 100} ELSE {FILL, CT81}

InitMedian ==
    /\ hemisphere = "south"
    /\ product \in Products
    /\ src = [n \in {SourceName(product, d, hemisphere) : d \in Dates} |-> Missing]
    /\ call = NoCall
    /\ job = [d \in Dates |-> NoJob]
    /\ log = {}
    /\ runs = <<>>
    /\ cli = NoCli
    /\ \E thresh \in Thresholds, to \in 0..NumDays :
          /\ args = [fn |-> "_median_grid", thresh |-> thresh, start |-> 1, end |-> to]
          /\ cache \in [{GridName(product, d, hemisphere) : d \in Days} ->
                          {Absent, Partial}
                             \cup {Complete(g) : g \in [Cells -> GridValues(product)]}]
          /\ \A d \in Days \ date_range(1, to) :
                cache[GridName(product, d, hemisphere)] = Absent
    /\ loop = [NoLoop EXCEPT !.date = 1]
    /\ ret = Pending

NextMedian == MedianIter \/ MedianReturn

SpecMedian == InitMedian /\ [][NextMedian]_vars

\* The dates of the range whose grid is retrieved, and among them those where
\* cell c reaches the threshold.
Retrieved == {d \in date_range(args.start, args.end) :
                 get_grid(product, d, hemisphere).exc = "none"}
Hits(c) == {d \in Retrieved : get_grid(product, d, hemisphere).grid[c] >= args.thresh}

\* C8: with N >= 1 dates retrieved, the result is true at a cell iff
\* hits / N >= 0.5, a half included; a date that raised counts in neither.
C8_Median ==
    (ret # Pending /\ Cardinality(Retrieved) >= 1) =>
       /\ ret.exc = "none"
       /\ loop.counter = Cardinality(Retrieved)
       /\ \A c \in Cells :
             ret.grid[c] <=> 2 * Cardinality(Hits(c)) >= Cardinality(Retrieved)

\* C8 witness: a range with a date that raised and two dates retrieved,
\* where one cell is hit on exactly one of the two (the half) and is true
\* and another cell is hit on none and is false.
C8_Witness ==
    /\ ret # Pending
    /\ Cardinality(Retrieved) = 2
    /\ Cardinality(date_range(args.start, args.end)) = 3
    /\ \E c1, c2 \in Cells :
          /\ Cardinality(Hits(c1)) = 1 /\ ret.grid[c1]
          /\ Cardinality(Hits(c2)) = 0 /\ ~ret.grid[c2]

\* C9: with no date retrieved (all raised, or an empty range) the function
\* raises to its caller and returns no grid.
C9_EmptyRange ==
    (ret # Pending /\ Cardinality(Retrieved) = 0) => ret.exc \notin {"none", "pending"}

\* C9 witness: a range with dates, none retrieved, ended in the error.
C9_Witness ==
    /\ ret # Pending
    /\ date_range(args.start, args.end) # {}
    /\ Retrieved = {}
    /\ ret.exc = "TypeError"

\* C10: the threshold mask is false at every cell that holds the
\* no-observation value, whatever the threshold.
C10_SentinelMasked ==
    ~loop.mask.none => \A c \in Cells : loop.grid.v[c] = FILL => ~loop.mask.v[c]

\* ============================== one date's job, called twice (SpecTwice)
\* _cdr_to_np_grid / _nic_to_np_grid called directly for one date, then a
\* second time for the same date, on a folder in any state the program can
\* have left it in: a cache file was made from a source, so its source is
\* not missing.
StoredGrids(p) ==
    IF p = "cdr" THEN {CdrGrid(c).grid : c \in {NetCDF(RawA), NetCDF(RawB)}}
    ELSE {NicGrid(c, Cells).grid : c \in {Shapefile(RowsA)}}

Artifacts(p) == {Absent, Partial} \cup {Complete(g) : g \in StoredGrids(p)}

InitTwice ==
    /\ hemisphere \in {"north", "south"}
    /\ product \in Products
    /\ src \in [{SourceName(product, d, hemisphere) : d \in Dates} -> Contents(product)]
    /\ cache \in [{GridName(product, d, hemisphere) : d \in Dates} -> Artifacts(product)]
    /\ \A d \in Dates :
          cache[GridName(product, d, hemisphere)] # Absent
             => src[SourceName(product, d, hemisphere)] # Missing
    /\ call = NoCall
    /\ job = [d \in Dates |-> NoJob]
    /\ log = {}
    /\ runs = <<>>
    /\ cli = NoCli
    /\ CmpIdle

to_np_grid(d, clobber, verbose) ==
    /\ call.status # "running"
    /\ Len(runs) < 2
    /\ runs # <<>> => runs[1].dt = d
    /\ call' = [fn |-> "to_np_grid", clobber |-> clobber, verbose |-> verbose,
                status |-> "running", returns |-> "nothing"]
    /\ job' = [e \in Dates |-> IF e = d THEN Queued ELSE NoJob]
    /\ log' = {}
    /\ UNCHANGED <<cli, cmpVars, hemisphere, product, src, cache, runs>>

to_np_grid_return(d) ==
    /\ call.status = "running"
    /\ call.fn = "to_np_grid"
    /\ job[d].pc \in {"done", "raised"}
    /\ call' = IF job[d].pc = "raised" THEN [call EXCEPT !.status = "raised"]
               ELSE [call EXCEPT !.status = "returned", !.returns = "None"]
    /\ runs' = Append(runs, [dt |-> d, clobber |-> call.clobber,
                             outcome |-> job[d].outcome, opened |-> job[d].opened,
                             after |-> cache[GridName(product, d, hemisphere)]])
    /\ UNCHANGED <<cli, cmpVars, hemisphere, product, src, cache, job, log>>

NextTwice ==
    \/ \E d \in Dates, clobber, verbose \in BOOLEAN : to_np_grid(d, clobber, verbose)
    \/ \E d \in Dates : JobStep(d)
    \/ \E d \in Dates : to_np_grid_return(d)

SpecTwice == InitTwice /\ [][NextTwice]_vars

Reads(r) == IF r.opened THEN 1 ELSE 0
TwiceNoClobber == Len(runs) = 2 /\ ~runs[1].clobber /\ ~runs[2].clobber

\* C1 as stated: after two runs without clobber on the same source the cache
\* file is what it was after the first run, and the source was read at most
\* once over the two runs.
C1_Idempotent ==
    TwiceNoClobber =>
       /\ runs[2].after = runs[1].after
       /\ Reads(runs[1]) + Reads(runs[2]) <= 1

\* C1 as amended: when the first run leaves a cache file, the second run is
\* skipped: it leaves the file as it was and does not read the source; so
\* the two runs never both convert the source with success.
C1_IdempotentOnceStored ==
    TwiceNoClobber =>
       /\ (runs[1].after # Absent =>
              /\ runs[2].outcome = "skipped"
              /\ runs[2].after = runs[1].after
              /\ Reads(runs[2]) = 0)
       /\ ~(runs[1].outcome = "succeeded" /\ runs[2].outcome = "succeeded")

\* C1 witness: the first run converted and stored, the second was skipped.
C1_Witness ==
    /\ TwiceNoClobber
    /\ runs[1].outcome = "succeeded"
    /\ runs[1].after.st = "complete"
    /\ runs[2].outcome = "skipped"

\* ================================================= claims on the ingestion
Key(d) == GridName(product, d, hemisphere)
Source(d) == src[SourceName(product, d, hemisphere)]
Converted(d) == IF product = "cdr" THEN CdrGrid(Source(d)) ELSE NicGrid(Source(d), Cells)
Progress == (\E d \in Dates : JobStep(d)) \/ ParallelReturn

\* C2: whatever dates fail, cdr_to_np / nic_to_np never hands an exception to
\* its caller and never gets stuck; when it has returned, every date of the
\* range has ended, every date that did not fail has a cache file, and (no
\* clobber) a date that failed before writing has none.
C2_FailureIsolation ==
    /\ call.status # "raised"
    /\ (call.status = "running" => ENABLED Progress)
    /\ (call.status = "returned" =>
          \A d \in date_range(start, end) :
             /\ job[d].pc = "done"
             /\ (job[d].outcome \notin Failures => exists(Key(d)))
             /\ (~call.clobber /\ job[d].outcome \in Failures \ {"OSError: write failed"}
                    => ~exists(Key(d))))

\* C2 witness: a call over fresh dates has returned, exactly one date
\* failed, and all the others have their cache file.
C2_Witness ==
    /\ call.status = "returned"
    /\ ~call.clobber
    /\ Cardinality({d \in Dates : job[d].outcome \in Failures}) = 1
    /\ Cardinality({d \in Dates : job[d].outcome = "succeeded"}) = NumDates - 1
    /\ Cardinality({d \in Dates : exists(Key(d))}) = NumDates - 1

\* C3: the cache file of a key is never observable partially written: it is
\* absent or a complete grid.
C3_AtomicStore == \A d \in Dates : cache[Key(d)].st \in {"absent", "complete"}

\* What C4 says of a state: with clobber no job has been skipped, and a job
\* that succeeded has left the grid it has just computed from the source.
C4_State ==
    \A d \in Dates :
       /\ (call.clobber /\ job[d].pc = "done" => job[d].outcome # "skipped")
       /\ (job[d].outcome = "succeeded" =>
              /\ Converted(d).exc = "none"
              /\ job[d].grid = Converted(d).grid
              /\ cache[Key(d)] = Complete(job[d].grid))

\* What C4 says of a step: a job that starts without clobber and finds its
\* file there is skipped and changes nothing; a job that starts with clobber
\* goes on to convert; the file of a skipped job is not changed.
C4_Step ==
    \A d \in Dates :
       /\ (job[d].pc = "queued" /\ job'[d].pc # "queued" /\ ~call.clobber /\ exists(Key(d))
              => job'[d].outcome = "skipped" /\ cache' = cache)
       /\ (job[d].pc = "queued" /\ job'[d].pc # "queued" /\ call.clobber
              => job'[d].pc = "convert")
       /\ (job[d].outcome = "skipped" => cache'[Key(d)] = cache[Key(d)])

\* C4: with clobber the conversion is invoked whether or not the cache file
\* exists, and after a successful run the file is the newly computed grid;
\* without clobber an existing file is left unchanged.
C4_Overwrite == [](C4_State) /\ [][C4_Step]_vars

\* C4 witness: a clobber call is converting a date whose file exists.
C4_Witness ==
    \E d \in Dates :
       /\ call.clobber
       /\ job[d].pc = "convert"
       /\ cache[Key(d)].st = "complete"
       /\ Converted(d).exc = "none"
       /\ Converted(d).grid # cache[Key(d)].grid

\* C5: the call hands back a report with one outcome per date of the range,
\* the one the date's job ended with.  What a call hands back is its return
\* value and what it printed.
OutcomeClass(o) ==
    IF o \in Failures THEN "failed" ELSE o

Recorded(d) ==
    IF call.returns # "None" THEN call.returns[d]
    ELSE IF \E e \in Failures : <<"COULDN'T RUN", d, e>> \in log THEN "failed"
    ELSE "not recorded"

C5_Report ==
    call.status = "returned" =>
       \A d \in date_range(start, end) : Recorded(d) = OutcomeClass(job[d].outcome)

\* ====================================== compare.py, calculate_ice_area
\* Each grid cell is 25 km x 25 km (line 11)
GRID_CELL_AREA == 25 * 25

\* lines 88-89, the two asserts
RangesOrderedNicOnly(min_sic_nic, max_sic_nic, min_sic_cdr, max_sic_cdr) ==
    min_sic_nic <= max_sic_nic
RangesOrdered(min_sic_nic, max_sic_nic, min_sic_cdr, max_sic_cdr) ==
    min_sic_nic <= max_sic_nic /\ min_sic_cdr <= max_sic_cdr

\* lines 91-93: the cells the CDR count sums over
CdrCountedExclusive(cdr_grid, min_sic_cdr, max_sic_cdr) ==
    {c \in DOMAIN cdr_grid :
        cdr_grid[c] > min_sic_cdr /\ cdr_grid[c] < max_sic_cdr /\ cdr_grid[c] >= 0}
CdrCounted(cdr_grid, min_sic_cdr, max_sic_cdr) ==
    {c \in DOMAIN cdr_grid :
        cdr_grid[c] >= min_sic_cdr /\ cdr_grid[c] <= max_sic_cdr /\ cdr_grid[c] >= 0}

\* lines 94-96: the cells the NIC count sums over, the NIC grid's range test
\* and the CDR grid's sign test broadcast against each other
NicCountedNoReference(cdr_grid, nic_grid, min_sic_nic, max_sic_nic) ==
    {c \in BroadcastShape(Shape(nic_grid), Shape(cdr_grid)) :
        At(nic_grid, c) >= min_sic_nic /\ At(nic_grid, c) <= max_sic_nic}
NicCounted(cdr_grid, nic_grid, min_sic_nic, max_sic_nic) ==
    {c \in BroadcastShape(Shape(nic_grid), Shape(cdr_grid)) :
        /\ At(nic_grid, c) >= min_sic_nic /\ At(nic_grid, c) <= max_sic_nic
        /\ At(cdr_grid, c) >= 0}

\* What a call of calculate_ice_area leaves: the exception or the two areas,
\* the cells each count summed over, and what was printed.
AreaResult(exc, areas, cdr_counted, nic_counted, out) ==
    [exc |-> exc, areas |-> areas, cdr_counted |-> cdr_counted,
     nic_counted |-> nic_counted, out |-> out]

\* lines 74-108
calculate_ice_area(cdr_grid, nic_grid, min_sic_nic, max_sic_nic, min_sic_cdr, max_sic_cdr, verbose) ==
    IF ~RangesOrdered(min_sic_nic, max_sic_nic, min_sic_cdr, max_sic_cdr)
    THEN AreaResult("AssertionError", None, {}, {}, <<>>)
    ELSE LET cdr_counted == CdrCounted(cdr_grid, min_sic_cdr, max_sic_cdr)
             cdr_cell_count == Cardinality(cdr_counted)
         IN  IF ~Broadcastable(Shape(nic_grid), Shape(cdr_grid))
             THEN AreaResult("ValueError", None, cdr_counted, {}, <<>>)
             ELSE LET nic_counted == NicCounted(cdr_grid, nic_grid, min_sic_nic, max_sic_nic)
                      nic_cell_count == Cardinality(nic_counted)
                      cdr_initial_count == Cardinality({c \in DOMAIN cdr_grid : cdr_grid[c] > 0})
                      nic_initial_count == Cardinality({c \in DOMAIN nic_grid : nic_grid[c] > 0})
                  IN  AreaResult("none",
                                 Some(<<cdr_cell_count * GRID_CELL_AREA,
                                        nic_cell_count * GRID_CELL_AREA>>),
                                 cdr_counted, nic_counted,
                                 IF verbose
                                 THEN << <<"CDR went from", cdr_initial_count, cdr_cell_count>>,
                                         <<"NIC went from", nic_initial_count, nic_cell_count>> >>
                                 ELSE <<>>)

\* --------------------------------------------------- SpecArea: the inputs
\* Two grids of the same shape; a CDR cell is a flag (negative) or a
\* concentration, a NIC cell is the fill value or a mapped concentration; the
\* bounds of the two ranges are any of AreaThresholds, in any order.
NumAreaCells == 4
AreaCells == 1..NumAreaCells
AreaNicValues == {FILL, CT81}
AreaCdrValues == {FILL, 50, 100}
AreaThresholds == {50, 100}

InitArea ==
    /\ hemisphere = "south"
    /\ product = "cdr"
    /\ src = [n \in {SourceName(product, d, hemisphere) : d \in Dates} |-> Missing]
    /\ cache = [n \in {GridName(product, d, hemisphere) : d \in Dates} |-> Absent]
    /\ call = NoCall
    /\ job = [d \in Dates |-> NoJob]
    /\ log = {}
    /\ runs = <<>>
    /\ cli = NoCli
    /\ \E cg \in [AreaCells -> AreaCdrValues], ng \in [AreaCells -> AreaNicValues],
          lo_n, hi_n, lo_c, hi_c \in AreaThresholds, verbose \in BOOLEAN :
          args = [fn |-> "calculate_ice_area", cdr_grid |-> cg, nic_grid |-> ng,
                  min_sic_nic |-> lo_n, max_sic_nic |-> hi_n,
                  min_sic_cdr |-> lo_c, max_sic_cdr |-> hi_c, verbose |-> verbose]
    /\ loop = NoLoop
    /\ ret = Pending

IceArea ==
    /\ args.fn = "calculate_ice_area"
    /\ ret = Pending
    /\ ret' = calculate_ice_area(args.cdr_grid, args.nic_grid,
                                 args.min_sic_nic, args.max_sic_nic,
                                 args.min_sic_cdr, args.max_sic_cdr, args.verbose)
    /\ UNCHANGED <<cli, hemisphere, product, src, cache, call, job, log, runs, args, loop>>

NextArea == IceArea

SpecArea == InitArea /\ [][NextArea]_vars

\* The cells of a grid whose value lies in [lo, hi].
Within(grid, lo, hi) == {c \in DOMAIN grid : lo <= grid[c] /\ grid[c] <= hi}
Observed(grid) == {c \in DOMAIN grid : grid[c] >= 0}

\* C11: a cell whose CDR value is negative is summed over by neither count,
\* whatever the NIC value there and whatever the ranges: neither area exceeds
\* the area of the cells the CDR grid observed.
C11_SentinelExcluded ==
    ret # Pending =>
       /\ \A c \in AreaCells :
             args.cdr_grid[c] < 0 => c \notin ret.cdr_counted /\ c \notin ret.nic_counted
       /\ (ret.exc = "none" =>
              /\ ret.areas.v[1] <= GRID_CELL_AREA * Cardinality(Observed(args.cdr_grid))
              /\ ret.areas.v[2] <= GRID_CELL_AREA * Cardinality(Observed(args.cdr_grid)))

\* C11 witness: areas were returned for a CDR grid with a negative cell whose
\* NIC value lies in the NIC range, next to a cell that both counts include.
C11_Witness ==
    /\ ret # Pending /\ ret.exc = "none"
    /\ \E c1, c2 \in AreaCells :
          /\ args.cdr_grid[c1] < 0
          /\ c1 \in Within(args.nic_grid, args.min_sic_nic, args.max_sic_nic)
          /\ c2 \in ret.cdr_counted /\ c2 \in ret.nic_counted

\* C12: with both ranges in order each area is 625 times the number of cells
\* whose value lies in the product's range, ends included, and whose CDR
\* value is not negative.
C12_Area ==
    (ret # Pending /\ args.min_sic_nic <= args.max_sic_nic
                   /\ args.min_sic_cdr <= args.max_sic_cdr) =>
       /\ ret.exc = "none"
       /\ ret.areas.v[1] = 625 * Cardinality(
             Within(args.cdr_grid, args.min_sic_cdr, args.max_sic_cdr)
                \cap Observed(args.cdr_grid))
       /\ ret.areas.v[2] = 625 * Cardinality(
             Within(args.nic_grid, args.min_sic_nic, args.max_sic_nic)
                \cap Observed(args.cdr_grid))

\* C12 witness: four cells qualify for the CDR area, values on both ends of
\* the range among them, and the area is 2500.
C12_Witness ==
    /\ ret # Pending /\ ret.exc = "none"
    /\ args.min_sic_cdr = 50 /\ args.max_sic_cdr = 100
    /\ Cardinality(ret.cdr_counted) = 4
    /\ \E c1, c2 \in ret.cdr_counted : args.cdr_grid[c1] = 50 /\ args.cdr_grid[c2] = 100
    /\ ret.areas.v[1] = 2500

\* C13: with the NIC range or the CDR range out of order the call raises
\* before any cell is counted, returns no areas and prints nothing.
C13_RangePrecondition ==
    (ret # Pending /\ (args.min_sic_nic > args.max_sic_nic
                       \/ args.min_sic_cdr > args.max_sic_cdr)) =>
       /\ ret.exc = "AssertionError"
       /\ ret.areas = None
       /\ ret.cdr_counted = {} /\ ret.nic_counted = {}
       /\ ret.out = <<>>

\* C13 witness: a verbose call with only the CDR range out of order, on
\* grids with cells the counts would include, has raised.
C13_Witness ==
    /\ ret # Pending /\ ret.exc = "AssertionError"
    /\ args.verbose
    /\ args.min_sic_nic <= args.max_sic_nic /\ args.min_sic_cdr > args.max_sic_cdr
    /\ Observed(args.cdr_grid) # {}
    /\ Within(args.nic_grid, args.min_sic_nic, args.max_sic_nic) # {}

\* ============================================ claims on the rasterization
\* The source of date d is a shapefile with a label the mapping does not have.
UnknownLabel(d) ==
    /\ Source(d).kind = "shapefile"
    /\ \E i \in 1..Len(Source(d).rows) : Source(d).rows[i].ICECODE \notin DOMAIN icecode_mapping

\* C14: the job of a date whose shapefile has a label outside the mapping
\* ends with the unknown-label error, the error is shown to the caller,
\* and the job has computed and stored no grid.
C14_UnknownCategory ==
    \A d \in Dates :
       (product = "nic" /\ UnknownLabel(d) /\ job[d].pc = "done" /\ job[d].outcome # "skipped") =>
          /\ job[d].outcome = "KeyError"
          /\ job[d].grid = <<>>
          /\ <<"COULDN'T RUN", d, "KeyError">> \in log

\* ------------------------------------------- SpecRasterize: the inputs
\* The conversion of lines 281-309 applied to a shapefile of at most
\* NumShapes rows; a row's geometry covers any set of cells, its label is one
\* of the mapping's or another one.
NumShapes == 3
Labels == {"CT18", "CT81", "CT13"}
Rows == {Row(cs, code) : cs \in SUBSET Cells, code \in Labels}
RowSeqs == UNION {[1..n -> Rows] : n \in 0..NumShapes}

InitRasterize ==
    /\ hemisphere = "south"
    /\ product = "nic"
    /\ src = [n \in {SourceName(product, d, hemisphere) : d \in Dates} |-> Missing]
    /\ cache = [n \in {GridName(product, d, hemisphere) : d \in Dates} |-> Absent]
    /\ call = NoCall
    /\ job = [d \in Dates |-> NoJob]
    /\ log = {}
    /\ runs = <<>>
    /\ cli = NoCli
    /\ \E rows \in RowSeqs : args = [fn |-> "_nic_to_np_grid", file |-> Shapefile(rows)]
    /\ loop = NoLoop
    /\ ret = Pending

Rasterize ==
    /\ args.fn = "_nic_to_np_grid"
    /\ ret = Pending
    /\ ret' = NicGrid(args.file, Cells)
    /\ UNCHANGED <<cli, hemisphere, product, src, cache, call, job, log, runs, args, loop>>

NextRasterize == Rasterize

SpecRasterize == InitRasterize /\ [][NextRasterize]_vars

\* The rows of the shapefile, by index, whose geometry covers cell c.
Covering(c) == {i \in 1..Len(args.file.rows) : c \in args.file.rows[i].cells}
Last(S) == CHOOSE i \in S : \A j \in S : j <= i

\* C15: a cell of the rasterized grid holds the mapped value of the last
\* row, in the shapefile's order, that covers it, and holds the fill value
\* iff no row covers it.
C15_LastWriteWins ==
    (ret # Pending /\ ret.exc = "none") =>
       \A c \in Cells :
          /\ (Covering(c) # {} =>
                 ret.grid[c] = icecode_mapping[args.file.rows[Last(Covering(c))].ICECODE])
          /\ (ret.grid[c] = FILL <=> Covering(c) = {})

\* C15 witness: a grid with a cell covered by a CT81 row and then by a CT18
\* row, holding 0.18, and a cell no row covers, holding the fill value.
C15_Witness ==
    /\ ret # Pending /\ ret.exc = "none"
    /\ \E c1, c2 \in Cells :
          /\ \E i, j \in Covering(c1) :
                /\ i < j /\ j = Last(Covering(c1))
                /\ args.file.rows[i].ICECODE = "CT81" /\ args.file.rows[j].ICECODE = "CT18"
          /\ ret.grid[c1] = CT18
          /\ Covering(c2) = {} /\ ret.grid[c2] = FILL

\* ================================================================= main.py
\* pd.date_range(start=..., end=..., closed="left"): the end is left out
date_range_closed_left(from, to) == date_range(from, to) \ {to}

\* --hemisphere, choices=['Antarctic', 'Arctic'], default='Antarctic' (lines 75-76)
HemisphereChoices == {"Antarctic", "Arctic"}

\* the outputs main can be asked for (lines 43-67)
Analyses == {"animation", "daily_plots", "daily_plots_combined", "median_plot", "stats"}

\* the analyses that main hands days to (lines 118, 120, 126)
PerDay == {"daily_plots", "daily_plots_combined", "stats"}

\* lines 78-90: the arguments are parsed and checked, days is computed
MainParse ==
    /\ cli.pc = "parse"
    /\ cli' = IF cli.start >= cli.end \/ cli.analyses = {}
              THEN [cli EXCEPT !.pc = "raised", !.exc = "ArgumentTypeError"]
              ELSE [cli EXCEPT !.pc = "download_cdr",
                               !.days = Some(date_range_closed_left(cli.start, cli.end))]
    /\ UNCHANGED <<hemisphere, product, src, cache, call, job, log, runs, cmpVars>>

\* lines 96-126, one call of main after the other.  Each call into io.py of
\* lines 96-112 starts with check_hemisphere(args.hemisphere) (io.py lines
\* 116, 40, 54, 221) and the failed assertion ends main.  The folders are not
\* followed here: what the calls do to them is download_range, cdr_to_np and
\* nic_to_np above.
MainCall ==
    /\ cli.pc \in {"download_cdr", "download_nic", "cdr_to_np", "get_cdr_metadata",
                   "nic_to_np", "analyses"}
    /\ cli' =
          IF cli.pc # "analyses" /\ ~check_hemisphere(hemisphere)
          THEN [cli EXCEPT !.pc = "raised", !.exc = "AssertionError", !.at = cli.pc]
          ELSE CASE cli.pc = "download_cdr" -> [cli EXCEPT !.pc = "download_nic"]
                 [] cli.pc = "download_nic" -> [cli EXCEPT !.pc = "cdr_to_np"]
                 [] cli.pc = "cdr_to_np" -> [cli EXCEPT !.pc = "get_cdr_metadata"]
                 [] cli.pc = "get_cdr_metadata" ->
                       [cli EXCEPT !.pc = "nic_to_np",
                                   !.extracted = @ + 1,
                                   !.meta = Some(SourceName("cdr", cli.start, hemisphere))]
                 [] cli.pc = "nic_to_np" ->
                       [cli EXCEPT !.pc = "analyses",
                                   !.cdr_meta = [d \in date_range(cli.start, cli.end) |-> cli.meta]]
                 [] cli.pc = "analyses" ->
                       [cli EXCEPT !.pc = "returned",
                                   !.analysed = [a \in cli.analyses \cap PerDay |-> cli.days.v]]
    /\ UNCHANGED <<hemisphere, product, src, cache, call, job, log, runs, cmpVars>>

\* ----------------------------------------------------- SpecMain: the inputs
\* main started on a fresh data directory with any command line the parser
\* accepts: two dates, a hemisphere of the choices, any outputs asked for.
InitMain ==
    /\ hemisphere \in HemisphereChoices
    /\ product = "cdr"
    /\ src = [n \in {SourceName(product, d, hemisphere) : d \in Days} |-> Missing]
    /\ cache = [n \in {GridName(product, d, hemisphere) : d \in Days} |-> Absent]
    /\ call = NoCall
    /\ job = [d \in Dates |-> NoJob]
    /\ log = {}
    /\ runs = <<>>
    /\ CmpIdle
    /\ \E s, e \in Days, as \in SUBSET Analyses, v \in BOOLEAN :
          cli = [pc |-> "parse", start |-> s, end |-> e, analyses |-> as, verbose |-> v,
                 days |-> None, exc |-> "none", at |-> "none", extracted |-> 0,
                 meta |-> None, cdr_meta |-> <<>>, analysed |-> <<>>]

NextMain == MainParse \/ MainCall

SpecMain == InitMain /\ [][NextMain]_vars

\* C16: the days main hands to its per-day analyses are all the dates from
\* start to end, both included.
C16_InclusiveInterval ==
    (cli.pc # "none" /\ ~cli.days.none) =>
       cli.days.v = {d \in Days : cli.start <= d /\ d <= cli.end}

\* C19: a run of main on accepted arguments has, when it ends, extracted the
\* projection metadata exactly once and handed it to the polygon jobs of
\* every date of the range.
C19_MetadataOnce ==
    (cli.pc \in {"returned", "raised"} /\ ~cli.days.none) =>
       /\ cli.extracted = 1
       /\ DOMAIN cli.cdr_meta = date_range(cli.start, cli.end)
       /\ \A d \in DOMAIN cli.cdr_meta : cli.cdr_meta[d] = cli.meta

\* ================================================ claims on the scheduling
Writing(d) == job[d].pc \in {"save", "writing"}

\* What C17 says of a state: no two jobs of the call are writing the same
\* file, and the file of a date is what the date's own job made of it: the
\* grid converted from the date's source after a success, the unfinished
\* file after a failed write.
C17_State ==
    /\ \A d1, d2 \in Dates : (d1 # d2 /\ Writing(d1) /\ Writing(d2)) => Key(d1) # Key(d2)
    /\ \A d \in Dates :
          /\ (job[d].outcome = "succeeded" => cache[Key(d)] = Complete(Converted(d).grid))
          /\ (job[d].outcome = "OSError: write failed" => cache[Key(d)] = Partial)

\* What C17 says of a step of a running call: it is the step of one job, it
\* changes neither another job nor another date's file, and it changes the
\* date's own file only when that job is writing it; so every file ends as
\* if the date's job had run alone, in any order.
C17_Step ==
    (call.status = "running" /\ call' = call) =>
       \E d \in Dates :
          /\ \A e \in Dates \ {d} : job'[e] = job[e] /\ cache'[Key(e)] = cache[Key(e)]
          /\ (cache'[Key(d)] # cache[Key(d)] => Writing(d))
          /\ src' = src

\* C17: the jobs of one call do not interfere, under every interleaving.
C17_NoInterference == [](C17_State) /\ [][C17_Step]_vars

\* C17 witness: two jobs of one call are both in the middle of their write.
C17_Witness ==
    /\ call.status = "running"
    /\ \E d1, d2 \in Dates :
          /\ d1 # d2
          /\ job[d1].pc = "writing" /\ job[d2].pc = "writing"
          /\ cache[Key(d1)] = Partial /\ cache[Key(d2)] = Partial

\* ------------------------------------------------ SpecRetry: repeated calls
\* The run of main repeated on one folder: download_range keeps the files it
\* has (no_clobber is its default and main's), the conversion is called with
\* clobber left False.  A job that can take a step takes it, a write that is
\* tried again and again succeeds in the end, a call whose jobs have ended
\* returns, and another call follows.
NextRetry ==
    \/ \E got \in [Dates -> Contents(product)] : download_range(TRUE, got)
    \/ \E verbose \in BOOLEAN : cdr_to_np(FALSE, verbose)
    \/ \E verbose \in BOOLEAN : nic_to_np(FALSE, verbose)
    \/ \E d \in Dates : JobStep(d)
    \/ ParallelReturn

SpecRetry ==
    /\ Init
    /\ [][NextRetry]_vars
    /\ \A d \in Dates : WF_vars(JobStep(d)) /\ SF_vars(JobSaveWrite(d))
    /\ WF_vars(ParallelReturn)
    /\ WF_vars(cdr_to_np(FALSE, FALSE) \/ nic_to_np(FALSE, FALSE))

Convertible(d) == Converted(d).exc = "none"
Cached(d) == Convertible(d) /\ cache[Key(d)] = Complete(Converted(d).grid)

\* What C18 says of a state: a call without clobber converts the dates that
\* have no cache file, and only those.
C18_State ==
    \A d \in Dates :
       /\ (job[d].pc = "convert" => ~exists(Key(d)))
       /\ (job[d].outcome = "skipped" => exists(Key(d)))

\* C18: a later call without clobber converts the dates that failed for
\* want of their source and none of those that succeeded, and with repeated
\* calls every date whose source is there and converts ends up cached.
C18_Retry == [](C18_State) /\ \A d \in Dates : Convertible(d) ~> Cached(d)

\* -------------------------------------------------- SpecShapes: the inputs
\* calculate_ice_area and calculate_ice_footprint_diff called with two grids
\* of any two shapes up to NumAreaCells.
ShapedGrids(values) == UNION {[1..n -> values] : n \in 1..NumAreaCells}

InitShapes ==
    /\ hemisphere = "south"
    /\ product = "cdr"
    /\ src = [n \in {SourceName(product, d, hemisphere) : d \in Dates} |-> Missing]
    /\ cache = [n \in {GridName(product, d, hemisphere) : d \in Dates} |-> Absent]
    /\ call = NoCall
    /\ job = [d \in Dates |-> NoJob]
    /\ log = {}
    /\ runs = <<>>
    /\ cli = NoCli
    /\ \E cg \in ShapedGrids({0, 100}), ng \in ShapedGrids({FILL, CT81}),
          lo_n, lo_c \in {0, 50} :
          \/ args = [fn |-> "calculate_ice_area", cdr_grid |-> cg, nic_grid |-> ng,
                     min_sic_nic |-> lo_n, max_sic_nic |-> 100,
                     min_sic_cdr |-> lo_c, max_sic_cdr |-> 100, verbose |-> FALSE]
          \/ args = [fn |-> "calculate_ice_footprint_diff",
                     nic_grid |-> ng, min_nic |-> lo_n, max_nic |-> 100,
                     cdr_grid |-> cg, min_cdr |-> lo_c, max_cdr |-> 100]
    /\ loop = NoLoop
    /\ ret = Pending

NextShapes == IceArea \/ FootprintDiff

SpecShapes == InitShapes /\ [][NextShapes]_vars

\* C20: called with two grids of different shapes, calculate_ice_area and
\* calculate_ice_footprint_diff raise and return no result.
C20_ShapeMismatch ==
    (ret # Pending /\ Shape(args.nic_grid) # Shape(args.cdr_grid)) => ret.exc # "none"

\* ============================================ claims on the hemisphere check
\* C21: with a hemisphere the parser accepts, the calls main makes into
\* io.py pass check_hemisphere and main goes on past them; and a call with
\* a hemisphere that is neither 'north' nor 'south' fails on the assertion
\* with the folder as it was.
C21_HemisphereCheck ==
    /\ (hemisphere \in HemisphereChoices /\ cli.pc # "none" => cli.exc # "AssertionError")
    /\ (~check_hemisphere(hemisphere) /\ cli.pc = "raised" /\ cli.exc = "AssertionError" =>
           /\ \A n \in DOMAIN src : src[n] = Missing
           /\ \A n \in DOMAIN cache : cache[n] = Absent)

====
